---- MODULE Spec2Model ----
(***************************************************************************)
(* Model of april_tag_generator.py: generate_fiducial and the __main__     *)
(* batch loop.  Lengths are exact rationals (numerator/denominator in      *)
(* lowest terms) standing for the Python floats; every length attribute of *)
(* a drawing element carries the unit suffix the code attaches to it.      *)
(***************************************************************************)
EXTENDS Integers, Sequences, FiniteSets, TLC

VARIABLES pc, queue, req, tag_per_side, tag, dwg, fs, writes, calls, error

vars == <<pc, queue, req, tag_per_side, tag, dwg, fs, writes, calls, error>>

(* ------------------------------ bounds -------------------------------- *)
MaxTagId == 7
MaxWidth == 5
MaxN == 4

(* ------------------------- rational arithmetic ------------------------ *)
RECURSIVE GCD(_, _)
GCD(a, b) == IF b = 0 THEN a ELSE GCD(b, a % b)

Abs(a) == IF a < 0 THEN 0 - a ELSE a

\* the rational a/b (b > 0) in lowest terms
R(a, b) == LET g == GCD(Abs(a), b) IN [n |-> a \div g, d |-> b \div g]

RInt(k) == [n |-> k, d |-> 1]
RAdd(x, y) == R(x.n * y.d + y.n * x.d, x.d * y.d)
RSub(x, y) == R(x.n * y.d - y.n * x.d, x.d * y.d)
RMul(x, y) == R(x.n * y.n, x.d * y.d)
RDiv(x, y) == R(x.n * y.d, x.d * y.n)
RLe(x, y) == x.n * y.d <= y.n * x.d
RLt(x, y) == x.n * y.d < y.n * x.d

\* a decimal literal of the source with two fractional digits, e.g. 1.25
Dec(hundredths) == R(hundredths, 100)

(* ------------------------------- units -------------------------------- *)
\* svgwrite: `x * cm` renders the number followed by the unit "cm"
cm(x) == [v |-> x, u |-> "cm"]
\* f"{x}em"
em(x) == [v |-> x, u |-> "em"]
\* a bare number handed to svgwrite: no unit is attached
bare(x) == [v |-> x, u |-> ""]

(* ------------------------- geometry (lines 32-49) --------------------- *)
\* variant: the margin counted on one side only
square_side_one_margin(width, n) == RDiv(RInt(width), RInt(n + 1))

square_side(width, n) == RDiv(RInt(width), RInt(n + 2))

\* variant: no room added for the label
height_no_label_room(width, n, print_label) == RInt(width)

height(width, n, print_label) ==
    IF print_label
    THEN RAdd(RInt(width), RMul(RInt(2), square_side(width, n)))
    ELSE RInt(width)

fiducial_size(width, n, print_label) == <<RInt(width), height(width, n, print_label)>>

square_size(width, n) == <<square_side(width, n), square_side(width, n)>>

april_org(width, n) == <<square_side(width, n), square_side(width, n)>>

font_size(width) == RDiv(RInt(width), RInt(5))

\* variant: the caption one module below the marker square instead of 1.25
caption_org_one_module(width, n) ==
    << RMul(square_side(width, n), Dec(125)),
       RAdd(RInt(width), square_side(width, n)) >>

caption_org(width, n) ==
    << RMul(square_side(width, n), Dec(125)),
       RAdd(RInt(width), RMul(square_side(width, n), Dec(125))) >>

axis_org(width, n) ==
    << RSub(RInt(width), RMul(square_side(width, n), RInt(2))),
       RAdd(RInt(width), RMul(square_side(width, n), Dec(125))) >>

y_point(width, n) ==
    << RAdd(axis_org(width, n)[1], RMul(Dec(75), square_side(width, n))),
       RAdd(axis_org(width, n)[2], RInt(0)) >>

\* variant: the z axis pointing down
z_point_down(width, n) ==
    << RAdd(axis_org(width, n)[1], RInt(0)),
       RAdd(axis_org(width, n)[2], RMul(Dec(75), square_side(width, n))) >>

z_point(width, n) ==
    << RAdd(axis_org(width, n)[1], RInt(0)),
       RAdd(axis_org(width, n)[2], RMul(Dec(-75), square_side(width, n))) >>

(* ---------------------- drawing elements (svgwrite) ------------------- *)
rect(insert, size, fill) ==
    [kind |-> "rect", insert |-> insert, size |-> size, fill |-> fill, stroke |-> fill]

text(content, insert, fsize) ==
    [kind |-> "text", text |-> content, insert |-> insert, font_size |-> fsize,
     fill |-> "black", stroke |-> "black"]

line(start, end, stroke_width) ==
    [kind |-> "line", start |-> start, end |-> end, stroke_width |-> stroke_width,
     fill |-> "black", stroke |-> "black"]

circle(center, r, stroke_width) ==
    [kind |-> "circle", center |-> center, r |-> r, stroke_width |-> stroke_width,
     fill |-> "black", stroke |-> "black"]

(* ------------------- drawing construction (lines 51-143) -------------- *)
\* lines 54-61: white rectangle over the whole canvas
background(width, n, print_label) ==
    rect(<<bare(RInt(0)), bare(RInt(0))>>,
         <<cm(fiducial_size(width, n, print_label)[1]),
           cm(fiducial_size(width, n, print_label)[2])>>,
         "white")

\* lines 62-69: black rectangle under the whole tag
tag_block(width, n) ==
    rect(<<cm(april_org(width, n)[1]), cm(april_org(width, n)[2])>>,
         <<cm(RMul(RInt(n), square_size(width, n)[1])),
           cm(RMul(RInt(n), square_size(width, n)[2]))>>,
         "black")

\* variant: row and column exchanged
module_rect_transposed(width, n, i, j) ==
    LET x == RAdd(R(width, n + 2), RMul(R(width, n + 2), RInt(i)))
        y == RAdd(R(width, n + 2), RMul(R(width, n + 2), RInt(j)))
    IN  [kind |-> "rect", fill |-> "white", stroke |-> "white",
         insert |-> <<[v |-> x, u |-> "cm"], [v |-> y, u |-> "cm"]>>,
         size |-> <<[v |-> R(width, n + 2), u |-> "cm"],
                    [v |-> R(width, n + 2), u |-> "cm"]>>]

\* lines 74-83: the white square of cell (i, j)
module_rect(width, n, i, j) ==
    LET x == RAdd(april_org(width, n)[1], RMul(square_size(width, n)[1], RInt(j)))
        y == RAdd(april_org(width, n)[1], RMul(square_size(width, n)[1], RInt(i)))
    IN  rect(<<cm(x), cm(y)>>,
             <<cm(square_size(width, n)[1]), cm(square_size(width, n)[2])>>,
             "white")

\* lines 71-83: the nested loops from cell number k = i * n + j onwards
RECURSIVE light_modules(_, _, _, _)
light_modules(t, width, n, k) ==
    IF k >= n * n THEN <<>>
    ELSE LET i == k \div n
             j == k % n
         IN  (IF t[<<i, j>>] = 255 THEN <<module_rect(width, n, i, j)>> ELSE <<>>)
             \o light_modules(t, width, n, k + 1)

\* lines 87-95: the id number
caption(tag_id, width, n) ==
    text("id: " \o ToString(tag_id),
         <<cm(caption_org(width, n)[1]), cm(caption_org(width, n)[2])>>,
         em(font_size(width)))

\* lines 98-106
y_axis(width, n) ==
    line(<<cm(axis_org(width, n)[1]), cm(axis_org(width, n)[2])>>,
         <<cm(y_point(width, n)[1]), cm(y_point(width, n)[2])>>,
         bare(font_size(width)))

\* lines 107-115
y_text(width, n) ==
    text("y",
         <<cm(RMul(y_point(width, n)[1], Dec(104))), cm(y_point(width, n)[2])>>,
         em(RMul(font_size(width), Dec(70))))

\* lines 117-125
z_axis(width, n) ==
    line(<<cm(axis_org(width, n)[1]), cm(axis_org(width, n)[2])>>,
         <<cm(z_point(width, n)[1]), cm(z_point(width, n)[2])>>,
         bare(font_size(width)))

\* lines 126-134
z_text(width, n) ==
    text("z",
         <<cm(RMul(z_point(width, n)[1], Dec(90))),
           cm(RMul(z_point(width, n)[2], Dec(105)))>>,
         em(RMul(font_size(width), Dec(70))))

\* lines 135-143
origin_dot(width, n) ==
    circle(<<cm(axis_org(width, n)[1]), cm(axis_org(width, n)[2])>>,
           bare(font_size(width)), bare(font_size(width)))

\* variant: the origin dot drawn before the axes
label_dot_first(tag_id, width, n) ==
    << caption(tag_id, width, n), origin_dot(width, n), y_axis(width, n),
       y_text(width, n), z_axis(width, n), z_text(width, n) >>

\* lines 85-143: id caption, y and z axes, origin dot
label(tag_id, width, n) ==
    << caption(tag_id, width, n), y_axis(width, n), y_text(width, n),
       z_axis(width, n), z_text(width, n), origin_dot(width, n) >>

\* line 27
filename(r) ==
    "april_" \o r.tag_family \o "_" \o ToString(r.tag_id) \o "_" \o ToString(r.width) \o "cm"

\* lines 51-143: the svgwrite.Drawing with everything added to it
Drawing(r, t, n) ==
    [filename |-> filename(r) \o ".svg",
     size |-> <<cm(fiducial_size(r.width, n, r.print_label)[1]),
                cm(fiducial_size(r.width, n, r.print_label)[2])>>,
     elements |-> <<background(r.width, n, r.print_label), tag_block(r.width, n)>>
                  \o light_modules(t, r.width, n, 0)
                  \o (IF r.print_label THEN label(r.tag_id, r.width, n) ELSE <<>>)]

(* --------------------- the bitmap provider (external) ----------------- *)
\* line 22: the families the docstring names
KnownFamilies == {"tag16h5", "tag25h9", "tag36h10", "tag36h11"}

Cells(n) == (0 .. n - 1) \X (0 .. n - 1)

\* the light-cell sets tried for an n x n tag: no cell, one cell, the first
\* row, the first column, all cells
LightSets(n) ==
    {{}, Cells(n), {c \in Cells(n) : c[1] = 0}, {c \in Cells(n) : c[2] = 0}}
        \cup {{c} : c \in Cells(n)}

\* line 30: an n x n array whose light cells hold 255
Matrix(n, light) == [c \in Cells(n) |-> IF c \in light THEN 255 ELSE 0]

(* ------------------------------ requests ------------------------------ *)
Request(id, family, width, print_label) ==
    [tag_id |-> id, tag_family |-> family, width |-> width, print_label |-> print_label]

\* variant: the ids counted from 1
MainBatchFromOne == [i \in 1 .. 4 |-> Request(i, "tag36h11", 5, TRUE)]

\* lines 153-156: the four calls of the entry point
MainBatch == [i \in 1 .. 4 |-> Request(i - 1, "tag36h11", 5, TRUE)]

InputFamilies == {"tag36h11", "tagXX"}

\* one call of generate_fiducial by any other caller
Requests ==
    {Request(id, f, w, l) : id \in 0 .. MaxTagId, f \in InputFamilies,
                            w \in 1 .. MaxWidth, l \in BOOLEAN}

NoReq == Request(0, "", 0, FALSE)
NoDwg == [filename |-> "", size |-> <<>>, elements |-> <<>>]

Init ==
    /\ pc = "idle"
    /\ queue \in {MainBatch} \cup {<<r>> : r \in Requests}
    /\ req = NoReq
    /\ tag_per_side = 0
    /\ tag = <<>>
    /\ dwg = NoDwg
    /\ fs = {}
    /\ writes = <<>>
    /\ calls = <<>>
    /\ error = "none"

(* ------------------------------ actions ------------------------------- *)
\* lines 155-156 (and any caller): the next call of generate_fiducial starts
Call ==
    /\ pc = "idle"
    /\ queue # <<>>
    /\ req' = Head(queue)
    /\ queue' = Tail(queue)
    /\ calls' = Append(calls, Head(queue))
    /\ pc' = "provider"
    /\ UNCHANGED <<tag_per_side, tag, dwg, fs, writes, error>>

\* lines 28-30: the provider returns the tag of the family and id
ProviderReturns ==
    /\ pc = "provider"
    /\ req.tag_family \in KnownFamilies
    /\ \E n \in 1 .. MaxN : \E light \in LightSets(n) :
          /\ tag_per_side' = n
          /\ tag' = Matrix(n, light)
    /\ pc' = "build"
    /\ UNCHANGED <<queue, req, dwg, fs, writes, calls, error>>

\* variant: the provider's error is caught and the function carries on
ProviderRaisesCaught ==
    /\ pc = "provider"
    /\ error' = IF req.tag_family \in KnownFamilies THEN "id out of range"
                                                     ELSE "unknown family"
    /\ tag_per_side' = 1
    /\ tag' = Matrix(1, {})
    /\ pc' = "build"
    /\ UNCHANGED <<queue, req, dwg, fs, writes, calls>>

\* lines 28-30: the provider raises; nothing of the function has run yet
ProviderRaises ==
    /\ pc = "provider"
    /\ error' = IF req.tag_family \in KnownFamilies THEN "id out of range"
                                                     ELSE "unknown family"
    /\ pc' = "raised"
    /\ UNCHANGED <<queue, req, tag_per_side, tag, dwg, fs, writes, calls>>

\* lines 32-143: geometry and the drawing, in memory
Build ==
    /\ pc = "build"
    /\ dwg' = Drawing(req, tag, tag_per_side)
    /\ pc' = "save"
    /\ UNCHANGED <<queue, req, tag_per_side, tag, fs, writes, calls, error>>

\* line 146: dwg.save() writes the vector file (file contents are not modelled)
Save ==
    /\ pc = "save"
    /\ fs' = fs \cup {dwg.filename}
    /\ writes' = Append(writes, dwg.filename)
    /\ pc' = "convert"
    /\ UNCHANGED <<queue, req, tag_per_side, tag, dwg, calls, error>>

\* line 146: dwg.save() raises
SaveRaises ==
    /\ pc = "save"
    /\ error' = "save failed"
    /\ pc' = "raised"
    /\ UNCHANGED <<queue, req, tag_per_side, tag, dwg, fs, writes, calls>>

\* lines 149-150: the saved vector file is read back and rendered to the page
\* file; the function returns and its locals are gone
Convert ==
    /\ pc = "convert"
    /\ filename(req) \o ".svg" \in fs
    /\ fs' = fs \cup {filename(req) \o ".pdf"}
    /\ writes' = Append(writes, filename(req) \o ".pdf")
    /\ pc' = "idle"
    /\ req' = NoReq
    /\ tag_per_side' = 0
    /\ tag' = <<>>
    /\ dwg' = NoDwg
    /\ UNCHANGED <<queue, calls, error>>

\* variant: the renderer's error is caught and the function returns normally
ConvertRaisesCaught ==
    /\ pc = "convert"
    /\ error' = "render failed"
    /\ pc' = "idle"
    /\ UNCHANGED <<queue, req, tag_per_side, tag, dwg, fs, writes, calls>>

\* lines 149-150: svg2rlg or renderPDF raises; the exception leaves the function
ConvertRaises ==
    /\ pc = "convert"
    /\ error' = "render failed"
    /\ pc' = "raised"
    /\ UNCHANGED <<queue, req, tag_per_side, tag, dwg, fs, writes, calls>>

Next ==
    \/ Call
    \/ ProviderReturns
    \/ ProviderRaises
    \/ Build
    \/ Save
    \/ SaveRaises
    \/ Convert
    \/ ConvertRaises

Spec == Init /\ [][Next]_vars

(* ------------------------ reading a built drawing --------------------- *)
Built == dwg # NoDwg

\* the module size and the width of the request being served, as exact numbers
ModuleSize == R(req.width, tag_per_side + 2)
Width == RInt(req.width)

LightCells == {c \in Cells(tag_per_side) : tag[c] = 255}
NumLight == Cardinality(LightCells)

\* the positions, in the element sequence, of the white squares painted over the tag
LightIdx == {k \in 3 .. Len(dwg.elements) :
                dwg.elements[k].kind = "rect" /\ dwg.elements[k].fill = "white"}

Pos(e) == <<e.insert[1].v, e.insert[2].v>>
Size(e) == <<e.size[1].v, e.size[2].v>>

(* ------------------------------- claims ------------------------------- *)

\* C1: the dark tag block starts at (moduleSize, moduleSize) with
\* moduleSize * (n + 2) = width, has size n * moduleSize in both directions, and
\* lies inside the canvas with exactly one module left, above and to its right
\* and exactly one module between its bottom edge and y = width.
C1_TagBlockInscribed ==
    Built =>
        LET b == dwg.elements[2]
            m == b.insert[1].v
            n == tag_per_side
        IN  /\ b.kind = "rect" /\ b.fill = "black"
            /\ RLt(RInt(0), m)
            /\ RMul(m, RInt(n + 2)) = Width
            /\ Pos(b) = <<m, m>>
            /\ Size(b) = <<RMul(RInt(n), m), RMul(RInt(n), m)>>
            /\ RAdd(Pos(b)[1], Size(b)[1]) = RSub(Width, m)
            /\ RAdd(Pos(b)[2], Size(b)[2]) = RSub(Width, m)
            /\ RLe(RAdd(Pos(b)[1], Size(b)[1]), dwg.size[1].v)
            /\ RLe(RAdd(Pos(b)[2], Size(b)[2]), dwg.size[2].v)

C1_Witness ==
    /\ pc = "save" /\ Built
    /\ tag_per_side = 3 /\ req.width = 2
    /\ Pos(dwg.elements[2]) = <<R(2, 5), R(2, 5)>>

\* C2: the canvas is `width` wide in both modes, `width` high without the label
\* and `width + 2 * moduleSize` high with it; the background rectangle starts
\* at (0, 0) and has exactly the canvas size.
C2_CanvasSize ==
    Built =>
        LET h == IF req.print_label THEN RAdd(Width, RMul(RInt(2), ModuleSize))
                                    ELSE Width
            bg == dwg.elements[1]
        IN  /\ dwg.size[1].v = Width
            /\ dwg.size[2].v = h
            /\ bg.kind = "rect" /\ bg.fill = "white"
            /\ Pos(bg) = <<RInt(0), RInt(0)>>
            /\ Size(bg) = <<Width, h>>

C2_Witness ==
    /\ Built /\ req.print_label /\ req.width = 5 /\ tag_per_side = 4
    /\ dwg.size[2].v = R(20, 3)

\* C3: there are exactly as many light-module rectangles as light cells; light
\* cell (i, j) has exactly one rectangle, at tagOrigin + (j * moduleSize,
\* i * moduleSize) with size (moduleSize, moduleSize), and every light-module
\* rectangle is the rectangle of a light cell.
CellPos(c) ==
    << RAdd(ModuleSize, RMul(RInt(c[2]), ModuleSize)),
       RAdd(ModuleSize, RMul(RInt(c[1]), ModuleSize)) >>

C3_LightModules ==
    Built =>
        /\ Cardinality(LightIdx) = NumLight
        /\ \A c \in LightCells :
              Cardinality({k \in LightIdx : Pos(dwg.elements[k]) = CellPos(c)}) = 1
        /\ \A k \in LightIdx :
              /\ Size(dwg.elements[k]) = <<ModuleSize, ModuleSize>>
              /\ \E c \in LightCells : Pos(dwg.elements[k]) = CellPos(c)

C3_Witness ==
    /\ Built /\ tag_per_side = 3 /\ LightCells = {<<0, 2>>}
    /\ req.width = 5
    /\ \E k \in LightIdx : Pos(dwg.elements[k]) = <<RInt(3), RInt(1)>>

\* C4: the elements come in the order background, tag block, light modules in
\* row-major order, and then, exactly when the label is enabled, the id text,
\* the y-axis line, the text "y", the z-axis line, the text "z" and the circle;
\* the sequence has 2 + (light cells) elements without the label and
\* 8 + (light cells) with it.
RowMajorBefore(p, q) == RLt(p[2], q[2]) \/ (p[2] = q[2] /\ RLt(p[1], q[1]))

C4_EmissionOrder ==
    Built =>
        LET els == dwg.elements
            L == NumLight
        IN  /\ Len(els) = (IF req.print_label THEN 8 ELSE 2) + L
            /\ els[1].kind = "rect" /\ els[1].fill = "white"
            /\ Pos(els[1]) = <<RInt(0), RInt(0)>>
            /\ els[2].kind = "rect" /\ els[2].fill = "black"
            /\ \A k \in 3 .. 2 + L : els[k].kind = "rect" /\ els[k].fill = "white"
            /\ \A k \in 3 .. 1 + L : RowMajorBefore(Pos(els[k]), Pos(els[k + 1]))
            /\ ~req.print_label =>
                  \A k \in 1 .. Len(els) : els[k].kind = "rect"
            /\ req.print_label =>
                  /\ els[L + 3].kind = "text"
                  /\ els[L + 3].text = "id: " \o ToString(req.tag_id)
                  /\ els[L + 4].kind = "line"
                  /\ els[L + 4].end[2].v = els[L + 4].start[2].v
                  /\ RLt(els[L + 4].start[1].v, els[L + 4].end[1].v)
                  /\ els[L + 5].kind = "text" /\ els[L + 5].text = "y"
                  /\ els[L + 6].kind = "line"
                  /\ els[L + 6].end[1].v = els[L + 6].start[1].v
                  /\ RLt(els[L + 6].end[2].v, els[L + 6].start[2].v)
                  /\ els[L + 7].kind = "text" /\ els[L + 7].text = "z"
                  /\ els[L + 8].kind = "circle"
                  /\ els[L + 8].center = els[L + 4].start

C4_Witness ==
    /\ Built /\ req.print_label /\ req.tag_id = 3
    /\ tag_per_side = 2 /\ NumLight = 4
    /\ Len(dwg.elements) = 12
    /\ dwg.elements[7].text = "id: 3"

\* a length rounded to four decimals, in units of 0.0001
Round4(x) == (2 * 10000 * x.n + x.d) \div (2 * x.d)

\* the scenario of C5: a 4 x 4 tag whose only light cell is (0, 0), width 5,
\* label enabled, tag id 7, drawing built
Scenario7 ==
    /\ Built
    /\ tag_per_side = 4 /\ LightCells = {<<0, 0>>}
    /\ req.width = 5 /\ req.print_label /\ req.tag_id = 7

Kinds(kind) == {k \in 1 .. Len(dwg.elements) : dwg.elements[k].kind = kind}

\* what C5 says besides the position of the id text: the three rectangles of
\* the unlabeled case, one text "id: 7", two lines, the texts "y" and "z", and
\* one circle centred at axisOrigin = (width - 2 * moduleSize, width + 1.25 * moduleSize)
Scenario7Elements ==
    LET els == dwg.elements
    IN  /\ Cardinality(Kinds("rect")) = 3
        /\ Pos(els[2]) = <<R(5, 6), R(5, 6)>> /\ Size(els[2]) = <<R(20, 6), R(20, 6)>>
        /\ Pos(els[3]) = <<R(5, 6), R(5, 6)>> /\ Size(els[3]) = <<R(5, 6), R(5, 6)>>
        /\ Cardinality({k \in Kinds("text") : els[k].text = "id: 7"}) = 1
        /\ Cardinality(Kinds("line")) = 2
        /\ Cardinality(Kinds("text")) = 3
        /\ Cardinality({k \in Kinds("text") : els[k].text = "y"}) = 1
        /\ Cardinality({k \in Kinds("text") : els[k].text = "z"}) = 1
        /\ Cardinality(Kinds("circle")) = 1
        /\ \A k \in Kinds("circle") :
              /\ els[k].center[1].v = RSub(RInt(5), RMul(RInt(2), R(5, 6)))
              /\ els[k].center[2].v = RAdd(RInt(5), RMul(R(5, 4), R(5, 6)))

\* C5 as stated: in the scenario the text "id: 7" is at (1.0417, 5.8333)
C5_AsStated ==
    Scenario7 =>
        /\ Scenario7Elements
        /\ \A k \in Kinds("text") :
              dwg.elements[k].text = "id: 7" =>
                  /\ Round4(dwg.elements[k].insert[1].v) = 10417
                  /\ Round4(dwg.elements[k].insert[2].v) = 58333

\* C5 (amended): in the scenario the text "id: 7" is at
\* (1.25 * moduleSize, width + 1.25 * moduleSize) = (1.0417, 6.0417) approximately,
\* and the rest of the output is as stated.
C5_Scenario ==
    Scenario7 =>
        /\ Scenario7Elements
        /\ \A k \in Kinds("text") :
              dwg.elements[k].text = "id: 7" =>
                  /\ dwg.elements[k].insert[1].v = RMul(R(5, 4), R(5, 6))
                  /\ dwg.elements[k].insert[2].v = RAdd(RInt(5), RMul(R(5, 4), R(5, 6)))
                  /\ Round4(dwg.elements[k].insert[1].v) = 10417
                  /\ Round4(dwg.elements[k].insert[2].v) = 60417

C5_Witness == Scenario7 /\ pc = "convert" /\ Len(dwg.elements) = 9

\* a length attribute is in centimeters: it carries the unit cm (a zero needs none)
InCm(a) == a.u = "cm" \/ a.v = RInt(0)

Lengths(e) ==
    IF e.kind = "rect" THEN {e.insert[1], e.insert[2], e.size[1], e.size[2]}
    ELSE IF e.kind = "line" THEN {e.start[1], e.start[2], e.end[1], e.end[2], e.stroke_width}
    ELSE IF e.kind = "text" THEN {e.insert[1], e.insert[2], e.font_size}
    ELSE {e.center[1], e.center[2], e.r, e.stroke_width}

\* C6: every length attribute of every emitted element is in centimeters.
C6_SingleUnit ==
    Built =>
        /\ InCm(dwg.size[1]) /\ InCm(dwg.size[2])
        /\ \A k \in 1 .. Len(dwg.elements) : \A a \in Lengths(dwg.elements[k]) : InCm(a)

\* C7: when the bitmap provider fails, the error leaves generate_fiducial: no
\* element has been emitted and neither artifact of the request is written; a
\* request for an unknown family never gets past the provider.
C7_ProviderFailure ==
    /\ error \in {"unknown family", "id out of range"} =>
          /\ pc = "raised"
          /\ dwg = NoDwg
          /\ filename(req) \o ".svg" \notin fs
          /\ filename(req) \o ".pdf" \notin fs
          /\ Len(writes) = 2 * (Len(calls) - 1)
    /\ (req # NoReq /\ req.tag_family \notin KnownFamilies) =>
          /\ pc \in {"provider", "raised"}
          /\ pc = "raised" => error = "unknown family"

C7_Witness ==
    /\ pc = "raised" /\ error = "id out of range"
    /\ Len(calls) = 3 /\ Cardinality(fs) = 4

\* the run is the one of the entry point
IsMain == Len(calls) + Len(queue) = 4
Finished == pc = "idle" /\ queue = <<>>

\* the state part of C8
DefaultBatchState ==
    IsMain =>
        /\ \A k \in 1 .. Len(calls) :
              /\ calls[k].tag_id = k - 1
              /\ calls[k].width = 5
              /\ calls[k].print_label
              /\ calls[k].tag_family = "tag36h11"
        /\ Finished =>
              /\ error = "none"
              /\ Len(calls) = 4
              /\ writes = << "april_tag36h11_0_5cm.svg", "april_tag36h11_0_5cm.pdf",
                             "april_tag36h11_1_5cm.svg", "april_tag36h11_1_5cm.pdf",
                             "april_tag36h11_2_5cm.svg", "april_tag36h11_2_5cm.pdf",
                             "april_tag36h11_3_5cm.svg", "april_tag36h11_3_5cm.pdf" >>
              /\ Cardinality(fs) = 8
              /\ \A a, b \in 1 .. Len(writes) : writes[a] = writes[b] => a = b

\* how far the run is from its end: every step brings it closer
Remaining ==
    6 * Len(queue) + (CASE pc = "provider" -> 5 [] pc = "build" -> 4 [] pc = "save" -> 3
                        [] pc = "convert" -> 2 [] pc = "idle" -> 1 [] OTHER -> 0)

\* C8: the entry point calls generate_fiducial for the ids 0, 1, 2, 3 in that
\* order, each with width 5 and the label enabled; the run ends (every step
\* brings it closer to its end, and it only stops finished or on an error), and
\* when no call failed it ends with exactly the eight artifacts
\* april_tag36h11_{id}_5cm.svg / .pdf, pairwise distinct, none written twice.
CanStep ==
    \/ ENABLED Call
    \/ ENABLED ProviderRaises
    \/ pc = "build"
    \/ ENABLED Save
    \/ ENABLED Convert

C8_DefaultBatch ==
    /\ [](DefaultBatchState /\ (Finished \/ pc = "raised" \/ CanStep))
    /\ [][Remaining' < Remaining]_vars

C8_Witness ==
    /\ IsMain /\ Finished /\ Len(calls) = 4
    /\ "april_tag36h11_3_5cm.pdf" \in fs

\* C9: a page artifact exists only if the vector artifact of its request exists
\* and was written before it; when the page renderer fails the error leaves the
\* program: the vector artifact of the request is there, its page artifact is
\* not, and no later request of the batch has run.
C9_VectorBeforePage ==
    /\ \A k \in 1 .. Len(calls) :
          filename(calls[k]) \o ".pdf" \in fs =>
              /\ filename(calls[k]) \o ".svg" \in fs
              /\ \E a, b \in 1 .. Len(writes) :
                    /\ a < b
                    /\ writes[a] = filename(calls[k]) \o ".svg"
                    /\ writes[b] = filename(calls[k]) \o ".pdf"
    /\ fs = {writes[k] : k \in 1 .. Len(writes)}
    /\ pc = "convert" => filename(req) \o ".svg" \in fs
    /\ error = "render failed" =>
          /\ pc = "raised"
          /\ req = calls[Len(calls)]
          /\ filename(req) \o ".svg" \in fs
          /\ filename(req) \o ".pdf" \notin fs
          /\ Len(writes) = 2 * Len(calls) - 1
          /\ writes[Len(writes)] = filename(req) \o ".svg"

C9_Witness ==
    /\ error = "render failed" /\ pc = "raised"
    /\ Len(calls) = 2 /\ Len(queue) = 2
    /\ fs = {"april_tag36h11_0_5cm.svg", "april_tag36h11_0_5cm.pdf",
             "april_tag36h11_1_5cm.svg"}

\* C10: with the label enabled, captionOrigin, axisOrigin, yAxisEndpoint and
\* zAxisEndpoint all have 0 <= x <= width and width <= y <= width + 2 * moduleSize;
\* yAxisEndpoint is 0.75 * moduleSize to the right of axisOrigin at the same y,
\* zAxisEndpoint 0.75 * moduleSize above axisOrigin at the same x.
InBand(p) ==
    /\ RLe(RInt(0), p[1]) /\ RLe(p[1], Width)
    /\ RLe(Width, p[2]) /\ RLe(p[2], RAdd(Width, RMul(RInt(2), ModuleSize)))

Point(a) == <<a[1].v, a[2].v>>

C10_LabelAnchors ==
    (Built /\ req.print_label) =>
        LET els == dwg.elements
            captionOrigin == Point(els[NumLight + 3].insert)
            axisOrigin == Point(els[NumLight + 4].start)
            yAxisEndpoint == Point(els[NumLight + 4].end)
            zAxisEndpoint == Point(els[NumLight + 6].end)
        IN  /\ InBand(captionOrigin) /\ InBand(axisOrigin)
            /\ InBand(yAxisEndpoint) /\ InBand(zAxisEndpoint)
            /\ Point(els[NumLight + 6].start) = axisOrigin
            /\ yAxisEndpoint[2] = axisOrigin[2]
            /\ RSub(yAxisEndpoint[1], axisOrigin[1]) = RMul(R(3, 4), ModuleSize)
            /\ zAxisEndpoint[1] = axisOrigin[1]
            /\ RSub(axisOrigin[2], zAxisEndpoint[2]) = RMul(R(3, 4), ModuleSize)

C10_Witness ==
    /\ Built /\ req.print_label /\ tag_per_side = 1 /\ req.width = 3
    /\ Point(dwg.elements[NumLight + 6].end) = <<RInt(1), R(7, 2)>>

====
